---- MODULE Spec2Model ----
(***************************************************************************)
(* One request to the coordinator's /analyze endpoint                      *)
(* (src/agents/coordinator/main.py, src/agents/coordinator/agent_logic.py).*)
(* The handler is split at its suspension points: the MCP data fetch, the  *)
(* planner, the fan-out of call_agent coroutines under asyncio.gather, the *)
(* collection of their results, synthesis, metadata and the HTTP answer.   *)
(* Python values are modelled by their shape (JSON object / array), the    *)
(* keys the code reads, and ghost fields (producer, local) that record     *)
(* where a value came from.                                                *)
(***************************************************************************)
EXTENDS Integers, Sequences, FiniteSets, TLC

VARIABLES pc, request, user_data, planLlm, plan, tasks, taskState, net,
          agent_results, order, responses, synthLlm, usedFallback,
          final_response, exc, http, sent, log,
          a2aPc, a2aAgent, a2aReq, a2aRoute, a2aResp,
          llmPc, llmSite, llmAnswer, llmResult,
          mcpPc, mcpTool, mcpReq, mcpCalls, mcpResp,
          toolPc, toolFn, toolIn, toolOut

\* the state of one /analyze request at the coordinator
coordVars == <<pc, request, user_data, planLlm, plan, tasks, taskState, net,
               agent_results, order, responses, synthLlm, usedFallback,
               final_response, exc, http, sent, log>>

\* the state of one request to an /a2a/process endpoint
a2aVars == <<a2aPc, a2aAgent, a2aReq, a2aRoute, a2aResp>>

\* the state of one call of the language model from one of its call sites
llmVars == <<llmPc, llmSite, llmAnswer, llmResult>>

\* the state of one request to a /tools/... endpoint of the MCP server
mcpVars == <<mcpPc, mcpTool, mcpReq, mcpCalls, mcpResp>>

\* the state of one call of a tool function of the investment agent
toolVars == <<toolPc, toolFn, toolIn, toolOut>>

vars == <<coordVars, a2aVars, llmVars, mcpVars, toolVars>>

(* ------------------------------ bounds --------------------------------- *)

\* longest required_agents list the LLM planner is let to propose
MaxPlanLen == 2

\* the most transactions the transaction service returns for an account
MaxTxns == 3

(* --------------------------- program constants ------------------------- *)

\* self.agents: the registry of agent endpoints
agents ==
    [budget     |-> "/analyze",
     investment |-> "/recommend",
     security   |-> "/assess"]

AgentNames == DOMAIN agents

\* a name an LLM plan can carry that the registry does not resolve
UnknownAgent == "tax"

PlanNames == AgentNames \cup {UnknownAgent}

\* confidence values in hundredths
DefaultConfidence == 80
AgentConfidence == 85
ErrorConfidence == 0

\* the keys the synthesis prompt asks the LLM for, which are also the keys
\* of the template that replaces a failed synthesis
SynthesisKeys ==
    {"summary", "detailed_plan", "key_insights", "next_actions", "monitoring"}

(* ------------------------------ helpers -------------------------------- *)

SeqUpTo(S, n) == UNION {[1..m -> S] : m \in 0..n}

NoExc == [type |-> "none", at |-> "none"]

Raised(type, at) == [type |-> type, at |-> at]

NoValue == [shape |-> "none"]

(* ---------------------- the MCP data fetch ----------------------------- *)

\* what the POST to /tools/get_financial_snapshot can end in
McpAnswers == {"200", "non200", "exception"}

\* the snapshot the MCP server builds: balance and spending_analysis are
\* objects (bank_anthos_client builds both as dicts)
Snapshot ==
    [shape |-> "object", has_error |-> FALSE,
     balance |-> "object", spending_analysis |-> "object"]

\* {"error": "..."}: the value returned for a non-200 answer or an exception
FetchError ==
    [shape |-> "object", has_error |-> TRUE,
     balance |-> "absent", spending_analysis |-> "absent"]

get_user_financial_data(mcp) ==
    IF mcp = "200" THEN Snapshot ELSE FetchError

(* ----------------------------- the planner ----------------------------- *)

\* a plan value: what json.loads(response.text) or the fallback returns
PlanObject(has_required, required, has_context) ==
    [shape |-> "object", has_required |-> has_required,
     required_agents |-> required, has_context |-> has_context]

\* a JSON text that is valid JSON but an array, not an object
PlanArray ==
    [shape |-> "array", has_required |-> FALSE,
     required_agents |-> <<>>, has_context |-> FALSE]

NoPlan ==
    [shape |-> "none", has_required |-> FALSE,
     required_agents |-> <<>>, has_context |-> FALSE]

\* the JSON values the LLM's text can parse to
PlanValues ==
    {PlanObject(TRUE, r, c) : r \in SeqUpTo(PlanNames, MaxPlanLen), c \in BOOLEAN}
    \cup {PlanObject(FALSE, <<>>, TRUE), PlanArray}

\* generate_content raises, or its text is not JSON, or it parses to a value
LlmPlanAnswers ==
    {[kind |-> "raise", value |-> NoPlan], [kind |-> "not_json", value |-> NoPlan]}
    \cup {[kind |-> "json", value |-> v] : v \in PlanValues}

\* the prompt f-string is built outside the try: a chained .get() raises
\* AttributeError when a present value is not an object
PromptRaises(ud) ==
    \/ ud.shape # "object"
    \/ ud.balance \notin {"absent", "object"}
    \/ ud.spending_analysis \notin {"absent", "object"}

\* the "Fallback plan" of the except branch
DefaultPlan ==
    PlanObject(TRUE, <<"budget", "investment", "security">>, TRUE)

\* variant: the planner without its try/except, an LLM failure propagates
analyze_user_query_unguarded(llm, ud) ==
    IF PromptRaises(ud)
    THEN [exc |-> Raised("AttributeError", "analyze_user_query"), plan |-> NoPlan]
    ELSE IF llm.kind = "json"
         THEN [exc |-> NoExc, plan |-> llm.value]
         ELSE [exc |-> Raised("LlmError", "analyze_user_query"), plan |-> NoPlan]

analyze_user_query(llm, ud) ==
    IF PromptRaises(ud)
    THEN [exc |-> Raised("AttributeError", "analyze_user_query"), plan |-> NoPlan]
    ELSE IF llm.kind = "json"
         THEN [exc |-> NoExc, plan |-> llm.value]
         ELSE [exc |-> NoExc, plan |-> DefaultPlan]

(* --------------------------- one agent call ---------------------------- *)

\* the fields of the AgentResponse dataclass
AgentResponseFields == {"agent_type", "result", "confidence", "recommendations"}

\* the POST that call_agent sends for task k: the payload has four keys,
\* no headers are passed, and neither a message id nor a correlation id is
\* generated
CallAgentRequest(k, agent_name) ==
    [task |-> k, agent |-> agent_name, url |-> agents[agent_name],
     keys |-> {"user_data", "context", "timestamp", "requesting_agent"},
     headers |-> {},
     message_id |-> "none", correlation_id |-> "none"]

\* variant: a call_agent that posts again after a transport error or timeout
CanSendWithRetry(states, outcomes, k) ==
    \/ states[k] = "created"
    \/ states[k] = "resolved" /\ outcomes[k] \in {"transport_error", "timeout"}

\* call_agent posts once: when the coroutine starts running
CanSend(states, outcomes, k) == states[k] = "created"

\* how the POST of one call_agent can end
NetOutcomes ==
    {"ok", "http_error", "transport_error", "timeout", "not_json", "not_object"}

\* the outcomes for which client.post or response.json raises
RaisingOutcomes == {"transport_error", "timeout", "not_json"}

\* the value of response.json() for the outcomes where it returns
response_json(agent_name, outcome) ==
    CASE outcome = "ok" ->
           [shape |-> "object", producer |-> agent_name, local |-> FALSE,
            has_error |-> FALSE, status_code |-> 200, confidence |-> AgentConfidence]
      [] outcome = "http_error" ->
           [shape |-> "object", producer |-> agent_name, local |-> FALSE,
            has_error |-> TRUE, status_code |-> 500, confidence |-> ErrorConfidence]
      [] OTHER ->
           [shape |-> "array", producer |-> agent_name, local |-> FALSE,
            has_error |-> FALSE, status_code |-> 200, confidence |-> -1]

\* the dict of the except branch of call_agent
AgentFailed(agent_name) ==
    [shape |-> "object", producer |-> agent_name, local |-> TRUE,
     has_error |-> TRUE, status_code |-> 0, confidence |-> ErrorConfidence]

call_agent(agent_name, outcome) ==
    IF outcome \in RaisingOutcomes
    THEN AgentFailed(agent_name)
    ELSE response_json(agent_name, outcome)

(* ------------------------- coordinate_agents --------------------------- *)

RECURSIVE Registered(_)
\* the names of a list for which `agent_name in self.agents` holds, in order
Registered(names) ==
    IF names = <<>> THEN <<>>
    ELSE IF Head(names) \in AgentNames
         THEN <<Head(names)>> \o Registered(Tail(names))
         ELSE Registered(Tail(names))

\* the loop that creates one call_agent coroutine per registered name
BuildTasks(p) ==
    IF p.shape # "object"
    THEN [exc |-> Raised("TypeError", "coordinate_agents"), tasks |-> <<>>]
    ELSE IF ~p.has_required
    THEN [exc |-> Raised("KeyError", "coordinate_agents"), tasks |-> <<>>]
    ELSE IF Registered(p.required_agents) # <<>> /\ ~p.has_context
    THEN [exc |-> Raised("KeyError", "coordinate_agents"), tasks |-> <<>>]
    ELSE [exc |-> NoExc, tasks |-> Registered(p.required_agents)]

\* variant: a join that cancels the unfinished siblings of a failed call
GatherResolveCancelling(states, results, names, k, outcome) ==
    [states  |-> [j \in DOMAIN states |->
                    IF j = k THEN "resolved"
                    ELSE IF outcome # "ok" /\ states[j] # "resolved" THEN "cancelled"
                    ELSE states[j]],
     results |-> [results EXCEPT ![k] = call_agent(names[k], outcome)]]

\* asyncio.gather(*agent_tasks, return_exceptions=True): task k resolving
\* stores its own result and leaves the other tasks alone
GatherResolve(states, results, names, k, outcome) ==
    [states  |-> [states EXCEPT ![k] = "resolved"],
     results |-> [results EXCEPT ![k] = call_agent(names[k], outcome)]]

\* variant: a join that returns with the first call that is done
GatherFirstCompleted(states) ==
    states = <<>> \/ \E k \in DOMAIN states : states[k] = "resolved"

\* gather returns when every awaitable is done
GatherDone(states) == \A k \in DOMAIN states : states[k] = "resolved"

\* result.get("confidence", 0.8)
GetConfidence(result) ==
    IF result.confidence = -1 THEN DefaultConfidence ELSE result.confidence

\* the name an AgentResponse is given for the i-th gathered result
ResponseName(p, names, i) == p.required_agents[i]

\* the "Process results" loop
ProcessResults(p, names, results) ==
    IF \E i \in DOMAIN results : results[i].shape # "object"
    THEN [exc |-> Raised("AttributeError", "coordinate_agents"), responses |-> <<>>]
    ELSE [exc |-> NoExc,
          responses |-> [i \in DOMAIN results |->
              [agent_type |-> ResponseName(p, names, i),
               result     |-> results[i],
               confidence |-> GetConfidence(results[i])]]]

(* ------------------------------ synthesis ------------------------------ *)

\* generate_content raises, its text is not JSON, or it parses to: the
\* object asked for, an object without "summary", an array
SynthAnswers == {"raise", "not_json", "object", "object_no_summary", "array"}

NoResponse == [shape |-> "none", keys |-> {}, agents_used |-> <<>>]

synthesize_response(answer, resps) ==
    CASE answer = "object" ->
           [shape |-> "object", keys |-> SynthesisKeys, agents_used |-> <<>>]
      [] answer = "object_no_summary" ->
           [shape |-> "object", keys |-> SynthesisKeys \ {"summary"}, agents_used |-> <<>>]
      [] answer = "array" ->
           [shape |-> "array", keys |-> {}, agents_used |-> <<>>]
      [] OTHER ->
           [shape |-> "object", keys |-> SynthesisKeys, agents_used |-> <<>>]

\* final_response["metadata"] = {...}
AddMetadata(fr, resps) ==
    IF fr.shape # "object"
    THEN [exc |-> Raised("TypeError", "metadata"), response |-> fr]
    ELSE [exc |-> NoExc,
          response |-> [fr EXCEPT !.keys = @ \cup {"metadata"},
                                  !.agents_used = [i \in DOMAIN resps |-> resps[i].agent_type]]]

(* ------------------------------ the HTTP answer ------------------------ *)

NoHttp == [code |-> 0, status |-> "none"]

\* jsonify({... "status": "success"}) or the except branch of the view
Respond(e) ==
    IF e = NoExc THEN [code |-> 200, status |-> "success"]
    ELSE [code |-> 500, status |-> "error"]

(* ------------------- the order of the stages --------------------------- *)

\* variant: process_financial_query coordinating before it has planned
StageAfterSkipsPlan(stage) ==
    CASE stage = "fetch"      -> "coordinate"
      [] stage = "plan"       -> "coordinate"
      [] stage = "coordinate" -> "gather"
      [] stage = "gather"     -> "synthesize"
      [] stage = "synthesize" -> "metadata"
      [] OTHER                -> "respond"

\* the statement that follows each step of process_financial_query when
\* the step does not raise
StageAfter(stage) ==
    CASE stage = "fetch"      -> "plan"
      [] stage = "plan"       -> "coordinate"
      [] stage = "coordinate" -> "gather"
      [] stage = "gather"     -> "synthesize"
      [] stage = "synthesize" -> "metadata"
      [] OTHER                -> "respond"

\* where a step goes: on, or to the except branch of the view
Continue(stage, e) == IF e = NoExc THEN StageAfter(stage) ELSE "respond"

(* ------------------- the investment agent's tool functions -------------- *)

\* the risk profiles of allocation_templates
RiskProfiles ==
    {"aggressive", "moderate_aggressive", "moderate", "conservative_moderate",
     "conservative"}

\* allocation_templates: the percentages, expected_return (in percent) and
\* volatility of each profile
allocation_templates(profile) ==
    CASE profile = "aggressive" ->
           [stocks |-> 85, bonds |-> 10, alternatives |-> 3, cash |-> 2,
            expected_return |-> 9, volatility |-> "high"]
      [] profile = "moderate_aggressive" ->
           [stocks |-> 75, bonds |-> 20, alternatives |-> 3, cash |-> 2,
            expected_return |-> 8, volatility |-> "moderate-high"]
      [] profile = "conservative_moderate" ->
           [stocks |-> 45, bonds |-> 50, alternatives |-> 2, cash |-> 3,
            expected_return |-> 6, volatility |-> "moderate-low"]
      [] profile = "conservative" ->
           [stocks |-> 25, bonds |-> 65, alternatives |-> 0, cash |-> 10,
            expected_return |-> 5, volatility |-> "low"]
      [] OTHER ->
           \* "moderate", and the default of .get for an unknown profile
           [stocks |-> 65, bonds |-> 30, alternatives |-> 3, cash |-> 2,
            expected_return |-> 7, volatility |-> "moderate"]

Max(a, b) == IF a >= b THEN a ELSE b

Min(a, b) == IF a <= b THEN a ELSE b

\* the adjustment of base_allocation to the timeline
AdjustForTimeline(base, profile, timeline_years) ==
    IF timeline_years < 3 THEN
        [base EXCEPT !.stocks = Max(20, @ - 20), !.bonds = @ + 15, !.cash = @ + 5]
    ELSE IF timeline_years > 15
            /\ profile \notin {"conservative", "conservative_moderate"} THEN
        [base EXCEPT !.stocks = Min(90, @ + 10), !.bonds = Max(5, @ - 10)]
    ELSE base

\* the keys base_allocation.items() runs over
AllocationKeys ==
    {"stocks", "bonds", "alternatives", "cash", "expected_return", "volatility"}

\* the Python type of the value under a key of base_allocation
ValueKind(key) == IF key = "volatility" THEN "string" ELSE "number"

\* (percentage / 100) * investment_amount raises TypeError for a string
DollarLoopRaises == \E key \in AllocationKeys : ValueKind(key) = "string"

\* the inputs of design_portfolio_allocation: one of the five profiles or
\* an unknown one, an amount (multiples of 100), a timeline in years
PortfolioInputs ==
    [risk_profile : RiskProfiles \cup {"unknown"},
     investment_amount : {0, 3000, 10000, 25000},
     timeline_years : {1, 10, 20}]

design_portfolio_allocation(inp) ==
    LET base == AdjustForTimeline(allocation_templates(inp.risk_profile),
                                  inp.risk_profile, inp.timeline_years)
    IN  IF DollarLoopRaises
        THEN [kind |-> "error"]
        ELSE [kind |-> "design",
              portfolio_allocation |-> base,
              dollar_stocks |-> base.stocks * (inp.investment_amount \div 100),
              recommendations |->
                  IF inp.investment_amount >= 10000 THEN "index_funds"
                  ELSE IF inp.investment_amount >= 3000 THEN "target_date"
                  ELSE "robo_advisor"]

\* the inputs of assess_risk_profile; the amounts are chosen so that every
\* quotient the function forms is a whole number
RiskInputs ==
    [age : {25, 35, 65, 70},
     balance : {0, 3000, 6000, 24000},
     monthly_income : {0, 5000},
     monthly_expenses : {0, 1000},
     debt_amount : {0, 15000, 60000},
     investment_timeline : {0, 5, 10, 20}]

\* the band of the thresholds 80, 60, 40, 20 that holds the score; `sum` is
\* five times risk_capacity_score
RiskBand(sum) ==
    IF sum >= 5 * 80 THEN "aggressive"
    ELSE IF sum >= 5 * 60 THEN "moderate_aggressive"
    ELSE IF sum >= 5 * 40 THEN "moderate"
    ELSE IF sum >= 5 * 20 THEN "conservative_moderate"
    ELSE "conservative"

assess_risk_profile(inp) ==
    LET \* emergency_fund_ratio * 50 = balance * 50 / (monthly_expenses * 6)
        ratio50 == IF inp.monthly_expenses > 0
                   THEN (inp.balance * 50) \div (inp.monthly_expenses * 6)
                   ELSE 0
        \* debt_to_income * 200 = debt_amount * 200 / (monthly_income * 12)
        dti200 == IF inp.monthly_income > 0
                  THEN (inp.debt_amount * 200) \div (inp.monthly_income * 12)
                  ELSE 0
        available_monthly == inp.monthly_income - inp.monthly_expenses
        age_score == Min(100, (65 - inp.age) * 2)
        stability_score == Min(100, ratio50)
        debt_score == Max(0, 100 - dti200)
        income_score == IF available_monthly > 0
                        THEN Min(100, (available_monthly * 20) \div 1000)
                        ELSE 0
        timeline_score == Min(100, inp.investment_timeline * 8)
        sum == age_score + stability_score + debt_score + income_score
               + timeline_score
    IN  [kind |-> "assessment",
         age_factor |-> age_score,
         financial_stability |-> stability_score,
         debt_burden |-> debt_score,
         income_flexibility |-> income_score,
         time_horizon |-> timeline_score,
         risk_capacity_score5 |-> sum,
         risk_profile |-> RiskBand(sum)]

\* what design_portfolio_allocation answers over its inputs, as the A2A
\* handler reads it: a result object ("ok") or an error object
PortfolioOutcomes ==
    {IF design_portfolio_allocation(inp).kind = "error" THEN "error" ELSE "ok" :
        inp \in PortfolioInputs}

(* ----------------------- the /a2a/process endpoints --------------------- *)

\* the services that expose /a2a/process
Specialists == {"budget", "investment", "security"}

A2AEndpoints == Specialists \cup {"coordinator"}

\* the sender_id each endpoint writes into its responses
AgentId(agent) ==
    CASE agent = "budget"     -> "budget_agent_full_adk"
      [] agent = "investment" -> "investment_agent_full_adk"
      [] agent = "security"   -> "security_agent_full_adk"
      [] OTHER                -> "financial_coordinator_a2a"

\* required_fields of the format check
RequiredFields == {"message_id", "sender_id", "receiver_id", "message_type", "payload"}

\* the version the specialists accept in X-A2A-Protocol
SupportedProtocol == "financial-advisor-v1"

\* the message types with a branch of their own in the if/elif chain
Handlers(agent) ==
    CASE agent = "budget" ->
           {"analyze_spending", "create_savings_plan", "assess_emergency_fund"}
      [] agent = "investment" ->
           {"assess_risk_profile", "design_portfolio", "retirement_planning",
            "optimize_taxes"}
      [] agent = "security" ->
           {"detect_fraud", "assess_financial_health",
            "analyze_identity_protection", "create_emergency_procedures"}
      [] OTHER ->
           {"coordination_request", "status_request"}

\* the comprehensive type each specialist lists in its capabilities
Comprehensive(agent) ==
    CASE agent = "budget"     -> "comprehensive_budget_analysis"
      [] agent = "investment" -> "comprehensive_investment_analysis"
      [] agent = "security"   -> "comprehensive_security_analysis"
      [] OTHER                -> "comprehensive_analysis"

\* supported_message_types of /a2a/capabilities (the specialists)
SupportedMessageTypes(agent) == Handlers(agent) \cup {Comprehensive(agent)}

\* the message types a request to an endpoint is drawn from
MessageTypes(agent) == Handlers(agent) \cup {Comprehensive(agent), "ping"}

\* the requests: which required fields the body lacks, the values of the
\* fields the response echoes, the shape of the payload, the correlation id
\* of the body and the two headers ("none": not sent)
A2ARequests(agent) ==
    [missing        : SUBSET RequiredFields,
     message_id     : {"m1", "m2"},
     sender_id      : {"financial_coordinator_a2a", "ui"},
     message_type   : MessageTypes(agent),
     payload        : {"object", "string"},
     correlation_id : {"none", "c-body"},
     x_correlation_id : {"none", "c-header"},
     x_a2a_protocol : {"none", SupportedProtocol, "financial-advisor-v2"}]

\* message.get(field) / message.get(field, default)
Get(req, field, default) ==
    IF field \in req.missing THEN default ELSE req[field]

\* variant: a format check that does not look at the protocol header
ValidateA2AFormatOnly(agent, req) ==
    IF req.missing # {} THEN "missing_fields" ELSE "ok"

\* the checks at the top of process_a2a_message, in program order: the
\* required fields first, then (specialists only) the protocol version
ValidateA2A(agent, req) ==
    IF req.missing # {} THEN "missing_fields"
    ELSE IF agent \in Specialists
            /\ req.x_a2a_protocol \notin {"none", SupportedProtocol}
         THEN "unsupported_version"
         ELSE "ok"

\* what the sub-agent tools called for a message answer: a JSON object, or
\* the {"error": ...} object of their own except branch (they never raise)
ToolOutcomes == {"ok", "error"}

\* the outcomes of the tools a message type runs: the investment agent's
\* design_portfolio branch and its comprehensive branch call
\* design_portfolio_allocation
ToolOutcomesFor(agent, message_type) ==
    IF agent = "investment" /\ message_type = "design_portfolio"
    THEN PortfolioOutcomes
    ELSE IF agent = "investment" /\ message_type \notin Handlers(agent)
            /\ "ok" \notin PortfolioOutcomes
         THEN {"error"}
         ELSE ToolOutcomes

\* the branches that pass the payload to the tool whole (json.dumps(payload))
WholePayloadTypes == {"create_savings_plan", "assess_emergency_fund"}

NoRoute == [raised |-> FALSE, top_error |-> FALSE, nested_error |-> FALSE]

\* the if/elif chain up to response_data: whether it raises (payload.get on
\* a payload that is no object, a failing import), whether response_data
\* has an "error" key, whether an error object sits inside it
RouteA2A(agent, req, tool) ==
    LET t == req.message_type IN
    IF agent = "coordinator" THEN
        \* `from agent import coordinate_financial_analysis`: agent.py has
        \* no such name, the import raises
        CASE t = "coordination_request" ->
               [raised |-> TRUE, top_error |-> FALSE, nested_error |-> FALSE]
          [] t = "status_request" ->
               [raised |-> FALSE, top_error |-> FALSE, nested_error |-> FALSE]
          [] OTHER ->
               [raised |-> FALSE, top_error |-> TRUE, nested_error |-> FALSE]
    ELSE IF t \in WholePayloadTypes /\ agent = "budget" THEN
        [raised |-> FALSE,
         top_error |-> (req.payload # "object" \/ tool = "error"),
         nested_error |-> FALSE]
    \* investment-agent/agent.py defines no optimize_tax_strategy
    ELSE IF req.payload # "object" \/ t = "optimize_taxes" THEN
        [raised |-> TRUE, top_error |-> FALSE, nested_error |-> FALSE]
    ELSE IF t \in Handlers(agent) THEN
        [raised |-> FALSE, top_error |-> (tool = "error"), nested_error |-> FALSE]
    ELSE
        [raised |-> FALSE, top_error |-> FALSE, nested_error |-> (tool = "error")]

\* the keys of an A2A response body
EnvelopeKeys ==
    {"message_id", "correlation_id", "sender_id", "receiver_id",
     "response_to", "timestamp", "status", "payload"}

\* the keys of "payload" in the response built after routing
ResultPayloadKeys(agent) ==
    IF agent = "coordinator"
    THEN {"agent_type", "adk_enabled", "coordination_results", "processing_metadata"}
    ELSE {"agent_type", "sub_agents_coordination", "adk_enabled",
          "analysis_results", "confidence", "recommendations",
          "processing_metadata"}

\* the keys of "payload" in the response of the except branch
ErrorPayloadKeys(agent) ==
    IF agent = "coordinator"
    THEN {"agent_type", "error", "adk_enabled"}
    ELSE {"agent_type", "error", "adk_enabled", "sub_agents_available"}

NoA2AResponse ==
    [code |-> 0, detail |-> "none", keys |-> {}, message_id |-> "none",
     correlation_id |-> "none", sender_id |-> "none", receiver_id |-> "none",
     response_to |-> "none", status |-> "none", payload_keys |-> {}]

\* raise HTTPException(status_code=400, detail=...)
A2ARejected(detail) ==
    [NoA2AResponse EXCEPT !.code = 400, !.detail = detail, !.keys = {"detail"}]

\* a2a_response, built after routing returned
A2AResultResponse(agent, req, route) ==
    [code |-> 200, detail |-> "none", keys |-> EnvelopeKeys,
     message_id |-> Get(req, "message_id", "null"),
     correlation_id |-> IF req.x_correlation_id # "none" THEN req.x_correlation_id
                        ELSE IF req.correlation_id # "none" THEN req.correlation_id
                        ELSE "null",
     sender_id |-> AgentId(agent),
     receiver_id |-> Get(req, "sender_id", "null"),
     response_to |-> Get(req, "message_type", "null"),
     status |-> IF route.top_error THEN "error" ELSE "success",
     payload_keys |-> ResultPayloadKeys(agent)]

\* variant: an except branch that fills the echoed fields with "unknown"
A2AErrorResponseUnknown(agent, req) ==
    [code |-> 200, detail |-> "none", keys |-> EnvelopeKeys,
     message_id |-> "unknown",
     correlation_id |-> IF req.x_correlation_id # "none" THEN req.x_correlation_id
                        ELSE "null",
     sender_id |-> AgentId(agent),
     receiver_id |-> "unknown",
     response_to |-> "unknown",
     status |-> "error",
     payload_keys |-> ErrorPayloadKeys(agent)]

\* the dict returned by `except Exception`
A2AErrorResponse(agent, req) ==
    [code |-> 200, detail |-> "none", keys |-> EnvelopeKeys,
     message_id |-> Get(req, "message_id", "unknown"),
     correlation_id |-> IF req.x_correlation_id # "none" THEN req.x_correlation_id
                        ELSE "null",
     sender_id |-> AgentId(agent),
     receiver_id |-> Get(req, "sender_id", "unknown"),
     response_to |-> Get(req, "message_type", "unknown"),
     status |-> "error",
     payload_keys |-> ErrorPayloadKeys(agent)]

NoA2ARequest ==
    [missing |-> {}, message_id |-> "none", sender_id |-> "none",
     message_type |-> "none", payload |-> "none", correlation_id |-> "none",
     x_correlation_id |-> "none", x_a2a_protocol |-> "none"]

A2AIdle ==
    /\ a2aPc = "idle"
    /\ a2aAgent = "none"
    /\ a2aReq = NoA2ARequest
    /\ a2aRoute = NoRoute
    /\ a2aResp = NoA2AResponse

(* ------------------- the call sites of the language model -------------- *)

\* the functions that call generate_content
CoordinatorSites == {"analyze_user_query", "synthesize_response"}

RecommendationSites ==
    {"generate_budget_recommendations", "generate_investment_recommendations",
     "generate_security_recommendations"}

SynthesisAgentSites ==
    {"synthesize_financial_strategy", "create_scenario_specific_strategy",
     "optimize_multi_goal_balance"}

LlmCallSites == CoordinatorSites \cup RecommendationSites \cup SynthesisAgentSites

\* what generate_content does: it returns text that is a JSON object, a JSON
\* object inside a ```json fence or a bare ``` fence, a JSON array, prose, or
\* nothing usable (reading .text raises); or the call raises, or runs into
\* its deadline (which raises as well)
LlmAnswers ==
    {"json_object", "fenced_json", "fenced_plain", "json_array", "prose",
     "empty", "raises", "timeout"}

\* the text handed to json.loads: the synthesis agent cuts a fenced block
\* out of the text first, the other call sites parse response.text as it is
CleanUp(site, answer) ==
    IF site \in SynthesisAgentSites /\ answer \in {"fenced_json", "fenced_plain"}
    THEN "json_object"
    ELSE answer

\* generate_content, .text and json.loads: the parsed value, or "raised"
ParseAnswer(site, answer) ==
    LET text == CleanUp(site, answer) IN
    CASE text = "json_object" -> "object"
      [] text = "json_array"  -> "array"
      [] OTHER                -> "raised"

\* what the call site hands to its caller: the model's value ("llm"), the
\* deterministic fallback, or an object with an "error" key
CallSiteResult(site, answer) ==
    LET parsed == ParseAnswer(site, answer) IN
    CASE site \in CoordinatorSites ->
           \* the parsed value is returned as it is
           IF parsed = "raised" THEN "fallback" ELSE "llm"
      [] site \in RecommendationSites ->
           \* result.update(...) raises on a list
           IF parsed = "object" THEN "llm" ELSE "error"
      [] site = "synthesize_financial_strategy" ->
           \* master_strategy["synthesis_metadata"] = ... raises on a list
           IF parsed = "object" THEN "llm" ELSE "fallback"
      [] OTHER ->
           IF parsed = "raised" THEN "error" ELSE "llm"

LlmIdle ==
    /\ llmPc = "idle"
    /\ llmSite = "none"
    /\ llmAnswer = "none"
    /\ llmResult = "none"

(* ------------------------- the MCP server tools ------------------------- *)

\* the POST /tools/... endpoints that take parameters
McpTools ==
    {"authenticate", "get_user_profile", "get_account_balance",
     "get_transaction_history", "get_user_contacts", "analyze_spending",
     "get_financial_snapshot"}

\* the parameters each endpoint tests with `if not ...`
RequiredParams(tool) ==
    CASE tool = "authenticate"      -> {"username", "password"}
      [] tool = "get_user_profile"  -> {"token"}
      [] tool = "get_user_contacts" -> {"username", "token"}
      [] tool = "get_financial_snapshot" -> {"token"}
      [] OTHER                      -> {"account_id", "token"}

\* the keys a request body may hold with a truthy value
ParamNames == {"username", "password", "token", "account_id", "user_id"}

\* the body get_user_financial_data of the coordinator posts
SnapshotRequestBody == {"user_id", "account_id"}

\* what the token decodes to: a payload with "user" and "acct", one that
\* lacks either, or nothing (jwt.decode raises)
TokenKinds == {"full", "no_user", "no_acct", "garbage"}

\* limit of get_transaction_history when the request names none
DefaultLimit == 100

\* the limit get_financial_snapshot passes
SnapshotLimit == 50

\* the limit analyze_spending_patterns passes
SpendingLimit == 100

\* the requests: the truthy parameters of the body, what the token decodes
\* to, and the "limit" parameter (0: not in the body)
McpRequests ==
    [params : SUBSET ParamNames,
     token  : TokenKinds,
     limit  : 0..MaxTxns]

\* request.get("limit", 100)
RequestLimit(req) == IF req.limit = 0 THEN DefaultLimit ELSE req.limit

\* what a Bank of Anthos service does with a request: it answers 200 with a
\* JSON body, answers another status, or the request raises
UpstreamOutcomes == {"ok", "non200", "exception"}

\* the steps a tool takes after its parameter check, in program order: the
\* local decoding of the token ("jwt") and the calls of the bank services,
\* each with the limit the caller passes (0: the call takes none)
McpSteps(tool, req) ==
    CASE tool = "authenticate" ->
           << [service |-> "userservice", limit |-> 0] >>
      [] tool = "get_user_profile" ->
           << [service |-> "jwt", limit |-> 0] >>
      [] tool = "get_account_balance" ->
           << [service |-> "balancereader", limit |-> 0] >>
      [] tool = "get_transaction_history" ->
           << [service |-> "transactionhistory", limit |-> RequestLimit(req)] >>
      [] tool = "get_user_contacts" ->
           << [service |-> "contacts", limit |-> 0] >>
      [] tool = "analyze_spending" ->
           << [service |-> "transactionhistory", limit |-> SpendingLimit] >>
      [] OTHER ->
           << [service |-> "jwt", limit |-> 0],
              [service |-> "balancereader", limit |-> 0],
              [service |-> "transactionhistory", limit |-> SnapshotLimit],
              [service |-> "transactionhistory", limit |-> SpendingLimit] >>
           \o (IF req.token = "no_user"
               THEN << >>
               ELSE << [service |-> "contacts", limit |-> 0] >>)

\* _decode_jwt_payload, and the account_id test of get_financial_snapshot
\* that follows it: "ok", or the exception raised
DecodeToken(tool, req) ==
    IF req.token = "garbage" THEN "exception"
    ELSE IF tool = "get_financial_snapshot" /\ req.token = "no_acct"
         THEN "http_400"
         ELSE "ok"

\* BankOfAnthosClient.get_transaction_history: the list it returns for
\* `count` transactions of the service and a limit (the limit is not read)
ReturnedTransactions(count, limit) == count

NoMcpRequest == [params |-> {}, token |-> "garbage", limit |-> 0]

NoMcpResponse == [code |-> 0, detail |-> "none", parts |-> {}]

\* the parts of the snapshot and the step that produces each
SnapshotParts == {"profile", "balance", "transactions", "spending_analysis", "contacts"}

\* raise HTTPException(status_code=500, ...) of `except Exception`
McpFailed(detail) == [code |-> 500, detail |-> detail, parts |-> {}]

\* the body returned with status 200; every snapshot has all five keys
McpAnswer(tool) ==
    [code |-> 200, detail |-> "none",
     parts |-> IF tool = "get_financial_snapshot" THEN SnapshotParts ELSE {}]

McpIdle ==
    /\ mcpPc = "idle"
    /\ mcpTool = "none"
    /\ mcpReq = NoMcpRequest
    /\ mcpCalls = << >>
    /\ mcpResp = NoMcpResponse

ToolIdle ==
    /\ toolPc = "idle"
    /\ toolFn = "none"
    /\ toolIn = [kind |-> "none"]
    /\ toolOut = [kind |-> "none"]

(* ------------------------------- state --------------------------------- *)

NoRequest == [user_id |-> FALSE, account_id |-> FALSE, query |-> FALSE]

CoordIdle ==
    /\ pc = "idle"
    /\ request = NoRequest
    /\ user_data = NoValue
    /\ planLlm = "none"
    /\ plan = NoPlan
    /\ tasks = <<>>
    /\ taskState = <<>>
    /\ net = <<>>
    /\ agent_results = <<>>
    /\ order = <<>>
    /\ responses = <<>>
    /\ synthLlm = "none"
    /\ usedFallback = FALSE
    /\ final_response = NoResponse
    /\ exc = NoExc
    /\ http = NoHttp
    /\ sent = <<>>
    /\ log = <<>>

Init == CoordIdle /\ A2AIdle /\ LlmIdle /\ McpIdle /\ ToolIdle

\* POST /analyze: the request body is read and checked
analyze_financial_query ==
    /\ pc = "idle"
    /\ \E u \in BOOLEAN, a \in BOOLEAN, q \in BOOLEAN :
         /\ request' = [user_id |-> u, account_id |-> a, query |-> q]
         /\ IF u /\ a /\ q
            THEN pc' = "fetch" /\ http' = http
            ELSE pc' = "done" /\ http' = [code |-> 400, status |-> "error"]
    /\ UNCHANGED <<user_data, planLlm, plan, tasks, taskState, net,
                   agent_results, order, responses, synthLlm, usedFallback,
                   final_response, exc, sent, log>>
    /\ UNCHANGED a2aVars
    /\ UNCHANGED llmVars
    /\ UNCHANGED mcpVars
    /\ UNCHANGED toolVars

\* Step 1 of process_financial_query
FetchData ==
    /\ pc = "fetch"
    /\ \E m \in McpAnswers : user_data' = get_user_financial_data(m)
    /\ pc' = Continue("fetch", NoExc)
    /\ log' = Append(log, "fetch")
    /\ UNCHANGED <<request, planLlm, plan, tasks, taskState, net,
                   agent_results, order, responses, synthLlm, usedFallback,
                   final_response, exc, http, sent>>
    /\ UNCHANGED a2aVars
    /\ UNCHANGED llmVars
    /\ UNCHANGED mcpVars
    /\ UNCHANGED toolVars

\* Step 2 of process_financial_query
PlanQuery ==
    /\ pc = "plan"
    /\ \E llm \in LlmPlanAnswers :
         LET r == analyze_user_query(llm, user_data) IN
         /\ planLlm' = llm.kind
         /\ plan' = r.plan
         /\ exc' = r.exc
         /\ pc' = Continue("plan", r.exc)
    /\ log' = Append(log, "plan")
    /\ UNCHANGED <<request, user_data, tasks, taskState, net,
                   agent_results, order, responses, synthLlm, usedFallback,
                   final_response, http, sent>>
    /\ UNCHANGED a2aVars
    /\ UNCHANGED llmVars
    /\ UNCHANGED mcpVars
    /\ UNCHANGED toolVars

\* Step 3, up to the await of asyncio.gather
Dispatch ==
    /\ pc = "coordinate"
    /\ LET r == BuildTasks(plan) IN
         /\ exc' = r.exc
         /\ tasks' = r.tasks
         /\ taskState' = [k \in DOMAIN r.tasks |-> "created"]
         /\ net' = [k \in DOMAIN r.tasks |-> "none"]
         /\ agent_results' = [k \in DOMAIN r.tasks |-> NoValue]
         /\ pc' = Continue("coordinate", r.exc)
         /\ sent' = [k \in DOMAIN r.tasks |-> <<>>]
    /\ log' = Append(log, "dispatch")
    /\ UNCHANGED <<request, user_data, planLlm, plan, order, responses,
                   synthLlm, usedFallback, final_response, http>>
    /\ UNCHANGED a2aVars
    /\ UNCHANGED llmVars
    /\ UNCHANGED mcpVars
    /\ UNCHANGED toolVars

\* call_agent k runs up to its await of client.post
StartCall(k) ==
    /\ pc = "gather"
    /\ CanSend(taskState, net, k)
    /\ taskState' = [taskState EXCEPT ![k] = "inflight"]
    /\ sent' = [sent EXCEPT ![k] = Append(@, CallAgentRequest(k, tasks[k]))]
    /\ UNCHANGED <<pc, request, user_data, planLlm, plan, tasks, net,
                   agent_results, order, responses, synthLlm, usedFallback,
                   final_response, exc, http, log>>
    /\ UNCHANGED a2aVars
    /\ UNCHANGED llmVars
    /\ UNCHANGED mcpVars
    /\ UNCHANGED toolVars

\* the POST of call_agent k ends and call_agent returns
ResolveCall(k) ==
    /\ pc = "gather"
    /\ taskState[k] = "inflight"
    /\ \E o \in NetOutcomes :
         LET g == GatherResolve(taskState, agent_results, tasks, k, o) IN
         /\ net' = [net EXCEPT ![k] = o]
         /\ taskState' = g.states
         /\ agent_results' = g.results
    /\ order' = Append(order, k)
    /\ UNCHANGED <<pc, request, user_data, planLlm, plan, tasks, responses,
                   synthLlm, usedFallback, final_response, exc, http, sent, log>>
    /\ UNCHANGED a2aVars
    /\ UNCHANGED llmVars
    /\ UNCHANGED mcpVars
    /\ UNCHANGED toolVars

\* gather returns and coordinate_agents processes the results
Collect ==
    /\ pc = "gather"
    /\ GatherDone(taskState)
    /\ LET r == ProcessResults(plan, tasks, agent_results) IN
         /\ exc' = r.exc
         /\ responses' = r.responses
         /\ pc' = Continue("gather", r.exc)
    /\ log' = Append(log, "collect")
    /\ UNCHANGED <<request, user_data, planLlm, plan, tasks, taskState, net,
                   agent_results, order, synthLlm, usedFallback,
                   final_response, http, sent>>
    /\ UNCHANGED a2aVars
    /\ UNCHANGED llmVars
    /\ UNCHANGED mcpVars
    /\ UNCHANGED toolVars

\* Step 4 of process_financial_query
Synthesize ==
    /\ pc = "synthesize"
    /\ \E s \in SynthAnswers :
         /\ synthLlm' = s
         /\ usedFallback' = (s \in {"raise", "not_json"})
         /\ final_response' = synthesize_response(s, responses)
    /\ pc' = Continue("synthesize", NoExc)
    /\ log' = Append(log, "synthesize")
    /\ UNCHANGED <<request, user_data, planLlm, plan, tasks, taskState, net,
                   agent_results, order, responses, exc, http, sent>>
    /\ UNCHANGED a2aVars
    /\ UNCHANGED llmVars
    /\ UNCHANGED mcpVars
    /\ UNCHANGED toolVars

\* Step 5 of process_financial_query
Metadata ==
    /\ pc = "metadata"
    /\ LET r == AddMetadata(final_response, responses) IN
         /\ exc' = r.exc
         /\ final_response' = r.response
         /\ pc' = Continue("metadata", r.exc)
    /\ log' = Append(log, "metadata")
    /\ UNCHANGED <<request, user_data, planLlm, plan, tasks, taskState, net,
                   agent_results, order, responses, synthLlm, usedFallback,
                   http, sent>>
    /\ UNCHANGED a2aVars
    /\ UNCHANGED llmVars
    /\ UNCHANGED mcpVars
    /\ UNCHANGED toolVars

\* the view returns: the success body, or the body of its except branch
SendResponse ==
    /\ pc = "respond"
    /\ http' = Respond(exc)
    /\ pc' = "done"
    /\ UNCHANGED <<request, user_data, planLlm, plan, tasks, taskState, net,
                   agent_results, order, responses, synthLlm, usedFallback,
                   final_response, exc, sent, log>>
    /\ UNCHANGED a2aVars
    /\ UNCHANGED llmVars
    /\ UNCHANGED mcpVars
    /\ UNCHANGED toolVars

Next ==
    \/ analyze_financial_query
    \/ FetchData
    \/ PlanQuery
    \/ Dispatch
    \/ \E k \in DOMAIN tasks : StartCall(k)
    \/ \E k \in DOMAIN tasks : ResolveCall(k)
    \/ Collect
    \/ Synthesize
    \/ Metadata
    \/ SendResponse

Spec == Init /\ [][Next]_vars

(* ------------------- the /a2a/process request handling ---------------- *)

\* POST /a2a/process arrives at one of the endpoints
ReceiveA2A ==
    /\ a2aPc = "idle"
    /\ \E agent \in A2AEndpoints : \E req \in A2ARequests(agent) :
         /\ a2aAgent' = agent
         /\ a2aReq' = req
    /\ a2aPc' = "validate"
    /\ UNCHANGED <<a2aRoute, a2aResp>>
    /\ UNCHANGED coordVars
    /\ UNCHANGED llmVars
    /\ UNCHANGED mcpVars
    /\ UNCHANGED toolVars

\* the format and version checks
CheckA2A ==
    /\ a2aPc = "validate"
    /\ LET v == ValidateA2A(a2aAgent, a2aReq) IN
         IF v = "ok"
         THEN a2aPc' = "route" /\ a2aResp' = a2aResp
         ELSE a2aPc' = "done" /\ a2aResp' = A2ARejected(v)
    /\ UNCHANGED <<a2aAgent, a2aReq, a2aRoute>>
    /\ UNCHANGED coordVars
    /\ UNCHANGED llmVars
    /\ UNCHANGED mcpVars
    /\ UNCHANGED toolVars

\* the message is routed to its tools
ProcessA2A ==
    /\ a2aPc = "route"
    /\ \E tool \in ToolOutcomesFor(a2aAgent, a2aReq.message_type) :
         a2aRoute' = RouteA2A(a2aAgent, a2aReq, tool)
    /\ a2aPc' = "respond"
    /\ UNCHANGED <<a2aAgent, a2aReq, a2aResp>>
    /\ UNCHANGED coordVars
    /\ UNCHANGED llmVars
    /\ UNCHANGED mcpVars
    /\ UNCHANGED toolVars

\* the response is built: a2a_response, or the dict of the except branch
AnswerA2A ==
    /\ a2aPc = "respond"
    /\ a2aResp' = IF a2aRoute.raised
                  THEN A2AErrorResponse(a2aAgent, a2aReq)
                  ELSE A2AResultResponse(a2aAgent, a2aReq, a2aRoute)
    /\ a2aPc' = "done"
    /\ UNCHANGED <<a2aAgent, a2aReq, a2aRoute>>
    /\ UNCHANGED coordVars
    /\ UNCHANGED llmVars
    /\ UNCHANGED mcpVars
    /\ UNCHANGED toolVars

InitA2A == CoordIdle /\ A2AIdle /\ LlmIdle /\ McpIdle /\ ToolIdle

NextA2A ==
    \/ ReceiveA2A
    \/ CheckA2A
    \/ ProcessA2A
    \/ AnswerA2A

SpecA2A == InitA2A /\ [][NextA2A]_vars

(* -------------------------- language model calls ----------------------- *)

\* a call site builds its prompt and calls generate_content
CallLlm ==
    /\ llmPc = "idle"
    /\ \E site \in LlmCallSites : llmSite' = site
    /\ llmPc' = "calling"
    /\ UNCHANGED <<llmAnswer, llmResult>>
    /\ UNCHANGED coordVars
    /\ UNCHANGED a2aVars
    /\ UNCHANGED mcpVars
    /\ UNCHANGED toolVars

\* the model answers, or the call fails
LlmAnswer ==
    /\ llmPc = "calling"
    /\ \E answer \in LlmAnswers : llmAnswer' = answer
    /\ llmPc' = "answered"
    /\ UNCHANGED <<llmSite, llmResult>>
    /\ UNCHANGED coordVars
    /\ UNCHANGED a2aVars
    /\ UNCHANGED mcpVars
    /\ UNCHANGED toolVars

\* the rest of the try block, or the except branch, returns
CallSiteReturns ==
    /\ llmPc = "answered"
    /\ llmResult' = CallSiteResult(llmSite, llmAnswer)
    /\ llmPc' = "returned"
    /\ UNCHANGED <<llmSite, llmAnswer>>
    /\ UNCHANGED coordVars
    /\ UNCHANGED a2aVars
    /\ UNCHANGED mcpVars
    /\ UNCHANGED toolVars

InitLlm == CoordIdle /\ A2AIdle /\ LlmIdle /\ McpIdle /\ ToolIdle

NextLlm ==
    \/ CallLlm
    \/ LlmAnswer
    \/ CallSiteReturns

SpecLlm == InitLlm /\ [][NextLlm]_vars

(* --------------------------- MCP tool requests -------------------------- *)

\* a POST /tools/<tool> arrives
ReceiveMcp ==
    /\ mcpPc = "idle"
    /\ \E tool \in McpTools : \E req \in McpRequests :
         /\ mcpTool' = tool
         /\ mcpReq' = req
    /\ mcpPc' = "check"
    /\ UNCHANGED <<mcpCalls, mcpResp>>
    /\ UNCHANGED <<coordVars, a2aVars, llmVars, toolVars>>

\* the parameter test: HTTPException(400) is raised inside the try block,
\* whose `except Exception` turns it into HTTPException(500)
CheckParams ==
    /\ mcpPc = "check"
    /\ IF RequiredParams(mcpTool) \subseteq mcpReq.params
       THEN mcpPc' = "call" /\ mcpResp' = mcpResp
       ELSE mcpPc' = "done" /\ mcpResp' = McpFailed("required")
    /\ UNCHANGED <<mcpTool, mcpReq, mcpCalls>>
    /\ UNCHANGED <<coordVars, a2aVars, llmVars, toolVars>>

\* the next step of the tool: the token is decoded, or a bank service is
\* called; a failure ends the request with status 500
StepMcp ==
    /\ mcpPc = "call"
    /\ Len(mcpCalls) < Len(McpSteps(mcpTool, mcpReq))
    /\ LET step == McpSteps(mcpTool, mcpReq)[Len(mcpCalls) + 1] IN
       \E outcome \in UpstreamOutcomes : \E count \in 0..MaxTxns :
         /\ step.service = "jwt" =>
              /\ outcome = (IF DecodeToken(mcpTool, mcpReq) = "ok"
                            THEN "ok" ELSE "exception")
         /\ (step.service # "transactionhistory" \/ outcome # "ok") => count = 0
         /\ mcpCalls' = Append(mcpCalls,
                [service |-> step.service, outcome |-> outcome,
                 limit |-> step.limit,
                 returned |-> ReturnedTransactions(count, step.limit)])
         /\ IF outcome = "ok"
            THEN mcpPc' = "call" /\ mcpResp' = mcpResp
            ELSE mcpPc' = "done" /\ mcpResp' = McpFailed("upstream")
    /\ UNCHANGED <<mcpTool, mcpReq>>
    /\ UNCHANGED <<coordVars, a2aVars, llmVars, toolVars>>

\* every step succeeded: the result is returned with status 200
RespondMcp ==
    /\ mcpPc = "call"
    /\ Len(mcpCalls) = Len(McpSteps(mcpTool, mcpReq))
    /\ mcpResp' = McpAnswer(mcpTool)
    /\ mcpPc' = "done"
    /\ UNCHANGED <<mcpTool, mcpReq, mcpCalls>>
    /\ UNCHANGED <<coordVars, a2aVars, llmVars, toolVars>>

InitMcp == CoordIdle /\ A2AIdle /\ LlmIdle /\ McpIdle /\ ToolIdle

NextMcp ==
    \/ ReceiveMcp
    \/ CheckParams
    \/ StepMcp
    \/ RespondMcp

SpecMcp == InitMcp /\ [][NextMcp]_vars

(* ----------------------------- tool calls ------------------------------ *)

\* assess_risk_profile is called with a JSON object of numbers
CallRiskTool ==
    /\ toolPc = "idle"
    /\ \E inp \in RiskInputs : toolIn' = inp
    /\ toolFn' = "assess_risk_profile"
    /\ toolPc' = "called"
    /\ UNCHANGED toolOut
    /\ UNCHANGED <<coordVars, a2aVars, llmVars, mcpVars>>

\* design_portfolio_allocation is called with a well-formed JSON object
CallPortfolioTool ==
    /\ toolPc = "idle"
    /\ \E inp \in PortfolioInputs : toolIn' = inp
    /\ toolFn' = "design_portfolio_allocation"
    /\ toolPc' = "called"
    /\ UNCHANGED toolOut
    /\ UNCHANGED <<coordVars, a2aVars, llmVars, mcpVars>>

\* the function returns its JSON string
ReturnTool ==
    /\ toolPc = "called"
    /\ toolOut' = IF toolFn = "assess_risk_profile"
                  THEN assess_risk_profile(toolIn)
                  ELSE design_portfolio_allocation(toolIn)
    /\ toolPc' = "returned"
    /\ UNCHANGED <<toolFn, toolIn>>
    /\ UNCHANGED <<coordVars, a2aVars, llmVars, mcpVars>>

InitTool == CoordIdle /\ A2AIdle /\ LlmIdle /\ McpIdle /\ ToolIdle

NextTool ==
    \/ CallRiskTool
    \/ CallPortfolioTool
    \/ ReturnTool

SpecTool == InitTool /\ [][NextTool]_vars

(* ------------------------------ properties ----------------------------- *)

ValidRequest == request.user_id /\ request.account_id /\ request.query

\* coordinate_agents has returned its list to process_financial_query
CoordinateReturned ==
    \/ pc \in {"synthesize", "metadata"}
    \/ /\ pc \in {"respond", "done"}
       /\ ValidRequest
       /\ exc.at \notin {"analyze_user_query", "coordinate_agents"}

\* the calls of the round that did not end in a 200 answer with an object
FailedOutcomes == NetOutcomes \ {"ok"}

\* position of task k in the order in which the calls resolved
Position(k) == CHOOSE i \in DOMAIN order : order[i] = k

\* C1: the list coordinate_agents returns has one outcome per entry of
\* plan["required_agents"], and an entry the registry does not resolve has a
\* locally produced failure outcome.
C1_OneOutcomePerTarget ==
    CoordinateReturned =>
        /\ Len(responses) = Len(plan.required_agents)
        /\ \A i \in DOMAIN plan.required_agents :
             plan.required_agents[i] \notin AgentNames =>
                \E j \in DOMAIN responses :
                    /\ responses[j].agent_type = plan.required_agents[i]
                    /\ responses[j].result.local
                    /\ responses[j].result.has_error

\* C2: every AgentResponse carries as agent_type the name of the agent whose
\* call produced its result.
C2_AttributedToProducer ==
    CoordinateReturned =>
        \A i \in DOMAIN responses :
            responses[i].agent_type = responses[i].result.producer

\* C3: the answer of /analyze has status "success" only if every agent call
\* of the round succeeded.
C3_SuccessOnlyIfAllSucceeded ==
    (pc = "done" /\ http.status = "success") =>
        \A k \in DOMAIN net : net[k] = "ok"

C5_ReturnsAfterAllResolved ==
    pc \in {"synthesize", "metadata", "respond", "done"} =>
        \A k \in DOMAIN tasks : taskState[k] = "resolved"

\* synthesis is about to start for a round of three calls whose first
\* resolution was a failure and whose second was a success
C5_Witness ==
    /\ pc = "synthesize"
    /\ Len(tasks) = 3
    /\ net[order[1]] = "transport_error"
    /\ net[order[2]] = "ok"

PlanValid(p) ==
    /\ p.shape = "object"
    /\ p.has_required
    /\ p.required_agents # <<>>
    /\ \A i \in DOMAIN p.required_agents : p.required_agents[i] \in AgentNames
    /\ p.has_context

\* C7: every plan handed to coordinate_agents is valid, and reading the plan
\* never makes process_financial_query fail.
C7_PlanValid ==
    /\ pc = "coordinate" => PlanValid(plan)
    /\ exc.at = "coordinate_agents" => exc.type \notin {"KeyError", "TypeError"}

\* C8: synthesize_response returns an object that contains a summary, and
\* the metadata step never fails on it.
C8_SynthesisPopulated ==
    /\ pc = "metadata" =>
         /\ final_response.shape = "object"
         /\ "summary" \in final_response.keys
    /\ exc.at # "metadata"

\* a result carries a marker when it has a key that a result of a successful
\* synthesis with metadata does not have
HasDegradationMarker(r) ==
    r.shape = "object" /\ r.keys \ (SynthesisKeys \cup {"metadata"}) # {}

\* C9: a result produced by the fallback template carries a marker of
\* degradation.
C9_FallbackMarked ==
    (usedFallback /\ pc \in {"metadata", "respond", "done"}) =>
        HasDegradationMarker(final_response)

\* C10: a request that carries user_id, account_id and query is answered
\* with 200 and a status field.
C10_AlwaysAnswered200 ==
    (pc = "done" /\ ValidRequest) =>
        http.code = 200 /\ http.status # "none"

\* C11: an agent answer with a status other than 200 is recorded as a
\* locally produced failure, never as the body the agent sent.
C11_Non200IsFailure ==
    CoordinateReturned =>
        \A k \in DOMAIN responses :
            net[k] = "http_error" =>
                /\ responses[k].result.local
                /\ responses[k].result.has_error
                /\ responses[k].result.status_code # 500

\* C12: a body that is not JSON, or JSON that is not an object, fails only
\* its own target: coordinate_agents does not raise and the outcomes of all
\* targets are kept.
C12_MalformedBodyIsolated ==
    (pc \in {"synthesize", "metadata", "respond", "done"}
        /\ \E k \in DOMAIN net : net[k] \in {"not_json", "not_object"}) =>
        /\ exc.at # "coordinate_agents"
        /\ Len(responses) = Len(tasks)
        /\ \A k \in DOMAIN responses :
             net[k] \in {"not_json", "not_object"} => responses[k].result.has_error

\* C13: the requests of one round carry one shared correlation id and
\* pairwise distinct message ids, and the collected outcomes carry that
\* correlation id.
C13_SharedCorrelationId ==
    /\ \A k \in DOMAIN sent : \A i \in DOMAIN sent[k] :
         /\ sent[k][i].correlation_id # "none"
         /\ sent[k][i].message_id # "none"
         /\ \A j \in DOMAIN sent : \A m \in DOMAIN sent[j] :
              /\ sent[j][m].correlation_id = sent[k][i].correlation_id
              /\ (j # k => sent[j][m].message_id # sent[k][i].message_id)
    /\ responses # <<>> => "correlation_id" \in AgentResponseFields

\* C18: every task of the round posts at most one request; a call that has
\* resolved, also by failure or timeout, has posted exactly one.
C18_NoRetry ==
    \A k \in DOMAIN sent :
        /\ Len(sent[k]) <= 1
        /\ taskState[k] \in {"inflight", "resolved"} => Len(sent[k]) = 1

\* a round was collected in which one call timed out and another met a
\* transport error, each after a single request
C18_Witness ==
    /\ pc = "synthesize"
    /\ \E k \in DOMAIN tasks : \E j \in DOMAIN tasks :
         /\ net[k] = "timeout" /\ Len(sent[k]) = 1
         /\ net[j] = "transport_error" /\ Len(sent[j]) = 1

\* the steps of process_financial_query in program order
StageOrder == <<"fetch", "plan", "dispatch", "collect", "synthesize", "metadata">>

IsPrefix(a, b) == Len(a) <= Len(b) /\ \A i \in DOMAIN a : a[i] = b[i]

\* C20: the stages run in program order: fetch, plan, dispatch, collect,
\* synthesize, metadata; no agent is contacted before the plan exists,
\* synthesis starts after every outcome is in, and a request that ends
\* without an exception has run every stage, also after a failed fetch.
C20_StagesInOrder ==
    /\ IsPrefix(log, StageOrder)
    /\ (\E k \in DOMAIN sent : sent[k] # <<>>) =>
          /\ plan # NoPlan
          /\ Len(log) >= 3
    /\ synthLlm # "none" =>
          /\ Len(log) >= 5
          /\ \A k \in DOMAIN tasks : taskState[k] = "resolved"
    /\ "metadata" \in final_response.keys => log = StageOrder
    /\ (Len(log) = 1 /\ user_data.has_error) => (pc = "plan" /\ exc = NoExc)
    /\ (ValidRequest /\ pc \in {"respond", "done"} /\ exc = NoExc) =>
          log = StageOrder

\* a request whose data fetch failed was answered after all six stages ran
C20_Witness ==
    /\ pc = "done"
    /\ log = StageOrder
    /\ user_data.has_error
    /\ http.code = 200
    /\ \E k \in DOMAIN sent : sent[k] # <<>>

(* --------------------- properties of /a2a/process ---------------------- *)

A2AAnswered == a2aPc = "done"

UnsupportedVersion(req) == req.x_a2a_protocol \notin {"none", SupportedProtocol}

\* C14: a message with all required fields that a specialist endpoint
\* answers with HTTP 200 gets a response (built after routing or in the
\* except branch) whose message_id is the request's message_id, whose
\* response_to is the request's message_type, whose receiver is the
\* request's sender and whose sender is the answering agent's own id
C14_EchoesRequest ==
    (A2AAnswered /\ a2aAgent \in Specialists /\ a2aReq.missing = {}
        /\ a2aResp.code = 200)
    => /\ a2aResp.message_id = a2aReq.message_id
       /\ a2aResp.response_to = a2aReq.message_type
       /\ a2aResp.receiver_id = a2aReq.sender_id
       /\ a2aResp.sender_id = AgentId(a2aAgent)

\* a specialist answered 200 from its except branch, echoing the request
C14_Witness ==
    /\ A2AAnswered
    /\ a2aAgent = "investment"
    /\ a2aRoute.raised
    /\ a2aResp.code = 200
    /\ a2aResp.status = "error"
    /\ a2aReq.message_id = "m2"
    /\ a2aResp.message_id = "m2"
    /\ a2aResp.receiver_id = "ui"

\* C15: every response whose status is "error" has the envelope of a
\* success response and an "error" key directly inside its payload, whether
\* a tool returned an error object or processing raised
C15_ErrorInsidePayload ==
    (A2AAnswered /\ a2aResp.status = "error")
    => /\ a2aResp.keys = EnvelopeKeys
       /\ "error" \in a2aResp.payload_keys

C17_VersionRejectedBeforeBody ==
    (A2AAnswered /\ UnsupportedVersion(a2aReq))
    => /\ a2aResp.code = 400
       /\ a2aResp.detail = "unsupported_version"

\* C25: a specialist serves every message type it lists under
\* supported_message_types with a handler that exists: a message with all
\* required fields, an accepted protocol header and an object payload whose
\* type is listed is processed without raising
C25_SupportedTypesServed ==
    (/\ A2AAnswered
     /\ a2aAgent \in Specialists
     /\ a2aReq.missing = {}
     /\ ~UnsupportedVersion(a2aReq)
     /\ a2aReq.payload = "object"
     /\ a2aReq.message_type \in SupportedMessageTypes(a2aAgent))
    => /\ a2aResp.code = 200
       /\ ~a2aRoute.raised

\* C27: a response has status "success" only if no tool run to build it
\* returned an error object, the tools of the comprehensive analysis included
C27_SuccessOnlyWithoutToolError ==
    (A2AAnswered /\ a2aResp.status = "success")
    => /\ ~a2aRoute.top_error
       /\ ~a2aRoute.nested_error

\* the correlation id the claim expects: the X-Correlation-ID header when it
\* is present, the correlation_id of the body otherwise
ExpectedCorrelationId(req) ==
    IF req.x_correlation_id # "none" THEN req.x_correlation_id
    ELSE IF req.correlation_id # "none" THEN req.correlation_id
    ELSE "null"

\* C28: every response of /a2a/process, the one of the except branch
\* included, carries the correlation id of the X-Correlation-ID header when
\* the header is present and the one of the request body otherwise
C28_CorrelationIdEchoed ==
    (A2AAnswered /\ a2aResp.code = 200)
    => a2aResp.correlation_id = ExpectedCorrelationId(a2aReq)

(* ------------------ properties of the language model calls -------------- *)

\* C19: at every call site, when the model fails, times out or returns
\* text that is not valid JSON, the caller receives the deterministic
\* fallback result and not an error result
C19_FallbackAtEveryCallSite ==
    (llmPc = "returned" /\ ParseAnswer(llmSite, llmAnswer) = "raised")
    => llmResult = "fallback"

(* --------------------- properties of the MCP server --------------------- *)

McpAnswered == mcpPc = "done"

\* the step whose result fills a part of the snapshot
PartService(part) ==
    CASE part = "profile"  -> "jwt"
      [] part = "balance"  -> "balancereader"
      [] part = "contacts" -> "contacts"
      [] OTHER             -> "transactionhistory"

\* C21: a tool whose upstream call fails or answers another status than
\* 200 answers with an HTTP error, and a snapshot answered with 200 has
\* every part (profile, balance, transactions, spending analysis, contacts)
\* built from a successful upstream response
C21_NoPartialSnapshot ==
    McpAnswered
    => /\ (\E k \in DOMAIN mcpCalls : mcpCalls[k].outcome # "ok")
            => mcpResp.code # 200
       /\ (mcpTool = "get_financial_snapshot" /\ mcpResp.code = 200)
            => \A part \in mcpResp.parts :
                 \E k \in DOMAIN mcpCalls :
                    /\ mcpCalls[k].service = PartService(part)
                    /\ mcpCalls[k].outcome = "ok"

\* C22: a request to a tool endpoint that lacks a required parameter is
\* answered with HTTP status 400
C22_MissingParameterIs400 ==
    (McpAnswered /\ ~(RequiredParams(mcpTool) \subseteq mcpReq.params))
    => mcpResp.code = 400

\* C24: every call of get_transaction_history, from its endpoint, for the
\* snapshot and for the spending analysis, returns at most `limit`
\* transactions
C24_AtMostLimitTransactions ==
    \A k \in DOMAIN mcpCalls :
        (mcpCalls[k].service = "transactionhistory" /\ mcpCalls[k].outcome = "ok")
        => mcpCalls[k].returned <= mcpCalls[k].limit

\* C29: when the MCP server and the bank services are healthy, the body the
\* coordinator posts to /tools/get_financial_snapshot is answered with the
\* snapshot, so that get_user_financial_data returns no error object
C29_CoordinatorGetsSnapshot ==
    (/\ McpAnswered
     /\ mcpTool = "get_financial_snapshot"
     /\ mcpReq.params = SnapshotRequestBody
     /\ \A k \in DOMAIN mcpCalls : mcpCalls[k].outcome = "ok")
    => ~get_user_financial_data(IF mcpResp.code = 200 THEN "200" ELSE "non200").has_error

(* ------------------ properties of the tool functions -------------------- *)

\* C23: for every well-formed input (one of the five risk profiles or an
\* unknown one, a non-negative amount, any timeline)
\* design_portfolio_allocation returns the portfolio design and not an
\* error object
C23_PortfolioDesigned ==
    (toolPc = "returned" /\ toolFn = "design_portfolio_allocation")
    => toolOut.kind = "design"

InRange(score) == 0 <= score /\ score <= 100

\* C26: each of the five factor scores of assess_risk_profile and the
\* resulting risk_capacity_score lies in 0..100, and the risk profile is the
\* one whose threshold band holds the score
C26_ScoresInRange ==
    (toolPc = "returned" /\ toolFn = "assess_risk_profile")
    => /\ InRange(toolOut.age_factor)
       /\ InRange(toolOut.financial_stability)
       /\ InRange(toolOut.debt_burden)
       /\ InRange(toolOut.income_flexibility)
       /\ InRange(toolOut.time_horizon)
       /\ 0 <= toolOut.risk_capacity_score5
       /\ toolOut.risk_capacity_score5 <= 5 * 100
       /\ toolOut.risk_profile = RiskBand(toolOut.risk_capacity_score5)

====
